---- MODULE Spec2Model ----
(***************************************************************************)
(* Model of kinsumer's configuration layer (config.go): the Config value,  *)
(* the default factory NewConfig, the fifteen With* modifiers and the      *)
(* validator validateConfig.                                               *)
(*                                                                         *)
(* A time.Duration is a signed 64-bit count; the code only stores and      *)
(* compares durations, so they are represented as signed integers counted  *)
(* in milliseconds (Millisecond is the unit).  A Go nil interface or nil   *)
(* pointer is Nil.  atTimestamp is a *time.Time that points at the         *)
(* callee's private copy of the argument, which nothing writes afterwards: *)
(* it is represented by Nil or by the instant it points at.                *)
(***************************************************************************)
EXTENDS Integers, Sequences, FiniteSets

VARIABLES c, recv, hist, err, pc

vars == <<c, recv, hist, err, pc>>

\* ------------------------------------------------------------------ bounds
\* Longest chain of modifier calls made before validating.
MaxCalls == 3

\* ------------------------------------------------------- time and constants
Millisecond == 1
Second == 1000 * Millisecond
Minute == 60 * Second

Nil == "nil"

\* kinesis.ShardIteratorType* constants
ShardIteratorTypeAtSequenceNumber == "AT_SEQUENCE_NUMBER"
ShardIteratorTypeAfterSequenceNumber == "AFTER_SEQUENCE_NUMBER"
ShardIteratorTypeAtTimestamp == "AT_TIMESTAMP"
ShardIteratorTypeLatest == "LATEST"
ShardIteratorTypeTrimHorizon == "TRIM_HORIZON"

ShardIteratorTypes ==
    { ShardIteratorTypeAtSequenceNumber, ShardIteratorTypeAfterSequenceNumber,
      ShardIteratorTypeAtTimestamp, ShardIteratorTypeLatest,
      ShardIteratorTypeTrimHorizon }

\* The errors validateConfig returns
ErrConfigInvalidThrottleDelay == "ErrConfigInvalidThrottleDelay"
ErrConfigInvalidCommitFrequency == "ErrConfigInvalidCommitFrequency"
ErrConfigInvalidShardCheckFrequency == "ErrConfigInvalidShardCheckFrequency"
ErrConfigInvalidLeaderActionFrequency == "ErrConfigInvalidLeaderActionFrequency"
ErrConfigInvalidBufferSize == "ErrConfigInvalidBufferSize"
ErrConfigInvalidStats == "ErrConfigInvalidStats"
ErrConfigInvalidDynamoCapacity == "ErrConfigInvalidDynamoCapacity"
ErrConfigInvalidLogger == "ErrConfigInvalidLogger"

\* The fields of the Config struct
Fields ==
    { "stats", "logger", "throttleDelay", "commitFrequency",
      "shardCheckFrequency", "leaderActionFrequency", "bufferSize",
      "dynamoReadCapacity", "dynamoWriteCapacity", "dynamoWaiterDelay",
      "shardIteratorType", "atTimestamp", "sequenceNumber" }

\* ---------------------------------------------------------- default factory
NewConfig_LowThrottle ==
    [ shardIteratorType     |-> ShardIteratorTypeAfterSequenceNumber,
      throttleDelay         |-> 150 * Millisecond,
      commitFrequency       |-> 1000 * Millisecond,
      shardCheckFrequency   |-> 1 * Minute,
      leaderActionFrequency |-> 1 * Minute,
      bufferSize            |-> 100,
      stats                 |-> "NoopStatReceiver",
      dynamoReadCapacity    |-> 10,
      dynamoWriteCapacity   |-> 10,
      dynamoWaiterDelay     |-> 3 * Second,
      logger                |-> "DefaultLogger",
      atTimestamp           |-> Nil,
      sequenceNumber        |-> "" ]

\* NewConfig: the fields the literal names, the others at their zero value
NewConfig ==
    [ shardIteratorType     |-> ShardIteratorTypeAfterSequenceNumber,
      throttleDelay         |-> 250 * Millisecond,
      commitFrequency       |-> 1000 * Millisecond,
      shardCheckFrequency   |-> 1 * Minute,
      leaderActionFrequency |-> 1 * Minute,
      bufferSize            |-> 100,
      stats                 |-> "NoopStatReceiver",
      dynamoReadCapacity    |-> 10,
      dynamoWriteCapacity   |-> 10,
      dynamoWaiterDelay     |-> 3 * Second,
      logger                |-> "DefaultLogger",
      atTimestamp           |-> Nil,
      sequenceNumber        |-> "" ]

\* ---------------------------------------------------------------- modifiers
WithThrottleDelay(cfg, delay) == [cfg EXCEPT !.throttleDelay = delay]

WithCommitFrequency_WrongField(cfg, commitFrequency) ==
    [cfg EXCEPT !.shardCheckFrequency = commitFrequency]

WithCommitFrequency(cfg, commitFrequency) ==
    [cfg EXCEPT !.commitFrequency = commitFrequency]

WithShardCheckFrequency(cfg, shardCheckFrequency) ==
    [cfg EXCEPT !.shardCheckFrequency = shardCheckFrequency]

WithLeaderActionFrequency(cfg, leaderActionFrequency) ==
    [cfg EXCEPT !.leaderActionFrequency = leaderActionFrequency]

WithBufferSize(cfg, bufferSize) == [cfg EXCEPT !.bufferSize = bufferSize]

WithStats(cfg, stats) == [cfg EXCEPT !.stats = stats]

WithDynamoReadCapacity(cfg, readCapacity) ==
    [cfg EXCEPT !.dynamoReadCapacity = readCapacity]

WithDynamoWriteCapacity(cfg, writeCapacity) ==
    [cfg EXCEPT !.dynamoWriteCapacity = writeCapacity]

WithDynamoWaiterDelay(cfg, delay) == [cfg EXCEPT !.dynamoWaiterDelay = delay]

WithLogger(cfg, logger) == [cfg EXCEPT !.logger = logger]

WithShardIteratorAtTimestamp_Clearing(cfg, t) ==
    [cfg EXCEPT !.shardIteratorType = ShardIteratorTypeAtTimestamp,
                !.atTimestamp = t,
                !.sequenceNumber = ""]

WithShardIteratorAtTimestamp(cfg, t) ==
    [cfg EXCEPT !.shardIteratorType = ShardIteratorTypeAtTimestamp,
                !.atTimestamp = t]

WithShardIteratorLatest(cfg) ==
    [cfg EXCEPT !.shardIteratorType = ShardIteratorTypeLatest]

WithShardIteratorAtSequenceNumber_OwnMode(cfg, sequenceNumber) ==
    [cfg EXCEPT !.shardIteratorType = ShardIteratorTypeAtSequenceNumber,
                !.sequenceNumber = sequenceNumber]

WithShardIteratorAtSequenceNumber(cfg, sequenceNumber) ==
    [cfg EXCEPT !.shardIteratorType = ShardIteratorTypeLatest,
                !.sequenceNumber = sequenceNumber]

WithShardIteratorAfterSequenceNumber(cfg, sequenceNumber) ==
    [cfg EXCEPT !.shardIteratorType = ShardIteratorTypeAfterSequenceNumber,
                !.sequenceNumber = sequenceNumber]

WithShardIteratorTrimHorizon(cfg) ==
    [cfg EXCEPT !.shardIteratorType = ShardIteratorTypeTrimHorizon]

\* ---------------------------------------------------------------- validator
\* Variants of validateConfig, each with one plausible slip.
validateConfig_NoOrderCheck(cfg) ==
    IF cfg.throttleDelay < 200 * Millisecond THEN ErrConfigInvalidThrottleDelay
    ELSE IF cfg.commitFrequency = 0 THEN ErrConfigInvalidCommitFrequency
    ELSE IF cfg.shardCheckFrequency = 0 THEN ErrConfigInvalidShardCheckFrequency
    ELSE IF cfg.leaderActionFrequency = 0
         THEN ErrConfigInvalidLeaderActionFrequency
    ELSE IF cfg.bufferSize = 0 THEN ErrConfigInvalidBufferSize
    ELSE IF cfg.stats = Nil THEN ErrConfigInvalidStats
    ELSE IF cfg.dynamoReadCapacity = 0 \/ cfg.dynamoWriteCapacity = 0
         THEN ErrConfigInvalidDynamoCapacity
    ELSE IF cfg.logger = Nil THEN ErrConfigInvalidLogger
    ELSE Nil

validateConfig_StatsBeforeBuffer(cfg) ==
    IF cfg.throttleDelay < 200 * Millisecond THEN ErrConfigInvalidThrottleDelay
    ELSE IF cfg.commitFrequency = 0 THEN ErrConfigInvalidCommitFrequency
    ELSE IF cfg.shardCheckFrequency = 0 THEN ErrConfigInvalidShardCheckFrequency
    ELSE IF cfg.leaderActionFrequency = 0
         THEN ErrConfigInvalidLeaderActionFrequency
    ELSE IF cfg.shardCheckFrequency > cfg.leaderActionFrequency
         THEN ErrConfigInvalidLeaderActionFrequency
    ELSE IF cfg.stats = Nil THEN ErrConfigInvalidStats
    ELSE IF cfg.bufferSize = 0 THEN ErrConfigInvalidBufferSize
    ELSE IF cfg.dynamoReadCapacity = 0 \/ cfg.dynamoWriteCapacity = 0
         THEN ErrConfigInvalidDynamoCapacity
    ELSE IF cfg.logger = Nil THEN ErrConfigInvalidLogger
    ELSE Nil

validateConfig_ThrottleInclusive(cfg) ==
    IF cfg.throttleDelay <= 200 * Millisecond THEN ErrConfigInvalidThrottleDelay
    ELSE IF cfg.commitFrequency = 0 THEN ErrConfigInvalidCommitFrequency
    ELSE IF cfg.shardCheckFrequency = 0 THEN ErrConfigInvalidShardCheckFrequency
    ELSE IF cfg.leaderActionFrequency = 0
         THEN ErrConfigInvalidLeaderActionFrequency
    ELSE IF cfg.shardCheckFrequency > cfg.leaderActionFrequency
         THEN ErrConfigInvalidLeaderActionFrequency
    ELSE IF cfg.bufferSize = 0 THEN ErrConfigInvalidBufferSize
    ELSE IF cfg.stats = Nil THEN ErrConfigInvalidStats
    ELSE IF cfg.dynamoReadCapacity = 0 \/ cfg.dynamoWriteCapacity = 0
         THEN ErrConfigInvalidDynamoCapacity
    ELSE IF cfg.logger = Nil THEN ErrConfigInvalidLogger
    ELSE Nil

validateConfig_OwnOrderError(cfg) ==
    IF cfg.throttleDelay < 200 * Millisecond THEN ErrConfigInvalidThrottleDelay
    ELSE IF cfg.commitFrequency = 0 THEN ErrConfigInvalidCommitFrequency
    ELSE IF cfg.shardCheckFrequency = 0 THEN ErrConfigInvalidShardCheckFrequency
    ELSE IF cfg.leaderActionFrequency = 0
         THEN ErrConfigInvalidLeaderActionFrequency
    ELSE IF cfg.shardCheckFrequency > cfg.leaderActionFrequency
         THEN "ErrConfigInvalidFrequencyOrder"
    ELSE IF cfg.bufferSize = 0 THEN ErrConfigInvalidBufferSize
    ELSE IF cfg.stats = Nil THEN ErrConfigInvalidStats
    ELSE IF cfg.dynamoReadCapacity = 0 \/ cfg.dynamoWriteCapacity = 0
         THEN ErrConfigInvalidDynamoCapacity
    ELSE IF cfg.logger = Nil THEN ErrConfigInvalidLogger
    ELSE Nil

validateConfig_ChecksSequenceNumber(cfg) ==
    IF cfg.throttleDelay < 200 * Millisecond THEN ErrConfigInvalidThrottleDelay
    ELSE IF cfg.commitFrequency = 0 THEN ErrConfigInvalidCommitFrequency
    ELSE IF cfg.shardCheckFrequency = 0 THEN ErrConfigInvalidShardCheckFrequency
    ELSE IF cfg.leaderActionFrequency = 0
         THEN ErrConfigInvalidLeaderActionFrequency
    ELSE IF cfg.shardCheckFrequency > cfg.leaderActionFrequency
         THEN ErrConfigInvalidLeaderActionFrequency
    ELSE IF cfg.bufferSize = 0 THEN ErrConfigInvalidBufferSize
    ELSE IF cfg.stats = Nil THEN ErrConfigInvalidStats
    ELSE IF cfg.dynamoReadCapacity = 0 \/ cfg.dynamoWriteCapacity = 0
         THEN ErrConfigInvalidDynamoCapacity
    ELSE IF cfg.logger = Nil THEN ErrConfigInvalidLogger
    ELSE IF cfg.shardIteratorType = ShardIteratorTypeAfterSequenceNumber
            /\ cfg.sequenceNumber = ""
         THEN "ErrConfigInvalidSequenceNumber"
    ELSE Nil

\* validateConfig: the nine checks in source order, returning at the first
\* that fails
validateConfig(cfg) ==
    IF cfg.throttleDelay < 200 * Millisecond THEN ErrConfigInvalidThrottleDelay
    ELSE IF cfg.commitFrequency = 0 THEN ErrConfigInvalidCommitFrequency
    ELSE IF cfg.shardCheckFrequency = 0 THEN ErrConfigInvalidShardCheckFrequency
    ELSE IF cfg.leaderActionFrequency = 0
         THEN ErrConfigInvalidLeaderActionFrequency
    ELSE IF cfg.shardCheckFrequency > cfg.leaderActionFrequency
         THEN ErrConfigInvalidLeaderActionFrequency
    ELSE IF cfg.bufferSize = 0 THEN ErrConfigInvalidBufferSize
    ELSE IF cfg.stats = Nil THEN ErrConfigInvalidStats
    ELSE IF cfg.dynamoReadCapacity = 0 \/ cfg.dynamoWriteCapacity = 0
         THEN ErrConfigInvalidDynamoCapacity
    ELSE IF cfg.logger = Nil THEN ErrConfigInvalidLogger
    ELSE Nil

\* ------------------------------------------------------------------ inputs
\* Arguments the callers pass to the modifiers (every Go value of the
\* parameter's type is accepted; these sample each side of every comparison
\* validateConfig makes).
ThrottleDelays == { -1 * Millisecond, 0, 199 * Millisecond, 200 * Millisecond }
CommitFrequencies == { -1 * Millisecond, 0, 500 * Millisecond }
ShardCheckFrequencies == { -1 * Millisecond, 0, 2 * Minute }
LeaderActionFrequencies == { -1 * Millisecond, 0, 2 * Minute }
BufferSizes == { -1, 0, 50 }
StatReceivers == { Nil, "statsd" }
ReadCapacities == { 0, 5 }
WriteCapacities == { -1, 0, 5 }
WaiterDelays == { 1 * Second }
Loggers == { Nil, "customLogger" }
Timestamps == { "t1", "t2" }
SequenceNumbers == { "s1", "s2" }

\* Configurations built directly as struct values inside the package (the
\* inputs of validateConfig taken as a pure function).
ConfigSpace ==
    { [ shardIteratorType     |-> m[1],
        atTimestamp           |-> m[2],
        sequenceNumber        |-> m[3],
        throttleDelay         |-> td,
        commitFrequency       |-> cf,
        shardCheckFrequency   |-> sf,
        leaderActionFrequency |-> lf,
        bufferSize            |-> bs,
        stats                 |-> st,
        dynamoReadCapacity    |-> rc,
        dynamoWriteCapacity   |-> wc,
        dynamoWaiterDelay     |-> 3 * Second,
        logger                |-> lg ] :
      m \in { <<ShardIteratorTypeAfterSequenceNumber, Nil, "">>,
              <<ShardIteratorTypeAtTimestamp, "t1", "s1">>,
              <<ShardIteratorTypeAtSequenceNumber, Nil, "s1">> },
      td \in { 199 * Millisecond, 200 * Millisecond, 250 * Millisecond },
      cf \in { -1 * Millisecond, 0, 1000 * Millisecond },
      sf \in { -1 * Millisecond, 0, 1 * Minute, 2 * Minute },
      lf \in { -1 * Millisecond, 0, 1 * Minute },
      bs \in { -1, 0, 100 },
      st \in { Nil, "NoopStatReceiver" },
      rc \in { -1, 0, 10 },
      wc \in { -1, 0, 10 },
      lg \in { Nil, "DefaultLogger" } }

\* ------------------------------------------------------------ state machine
\* c     the configuration value the caller holds (the result of the last call)
\* recv  the receiver of the last modifier call, as it is after the call
\* hist  the modifier calls made so far, in order
\* err   the result of validateConfig (Nil is a nil error)
\* pc    "building" (chain from NewConfig), "given" (a configuration built
\*       directly) or "validated"

Init ==
    /\ c = NewConfig
    /\ recv = NewConfig
    /\ hist = <<>>
    /\ err = Nil
    /\ pc = "building"

InitGiven ==
    /\ c \in ConfigSpace
    /\ recv = c
    /\ hist = <<>>
    /\ err = Nil
    /\ pc = "given"

\* A modifier call on the value receiver c: the method works on its own
\* copy, returns it, and the caller's receiver keeps its value.
Call(name, arg, out) ==
    /\ recv' = c
    /\ c' = out
    /\ hist' = Append(hist, [name |-> name, arg |-> arg])
    /\ UNCHANGED <<err, pc>>

CanCall == pc = "building" /\ Len(hist) < MaxCalls

CallWithThrottleDelay ==
    /\ CanCall
    /\ \E d \in ThrottleDelays :
          Call("WithThrottleDelay", d, WithThrottleDelay(c, d))

CallWithCommitFrequency ==
    /\ CanCall
    /\ \E d \in CommitFrequencies :
          Call("WithCommitFrequency", d, WithCommitFrequency(c, d))

CallWithShardCheckFrequency ==
    /\ CanCall
    /\ \E d \in ShardCheckFrequencies :
          Call("WithShardCheckFrequency", d, WithShardCheckFrequency(c, d))

CallWithLeaderActionFrequency ==
    /\ CanCall
    /\ \E d \in LeaderActionFrequencies :
          Call("WithLeaderActionFrequency", d, WithLeaderActionFrequency(c, d))

CallWithBufferSize ==
    /\ CanCall
    /\ \E n \in BufferSizes : Call("WithBufferSize", n, WithBufferSize(c, n))

CallWithStats ==
    /\ CanCall
    /\ \E s \in StatReceivers : Call("WithStats", s, WithStats(c, s))

CallWithDynamoReadCapacity ==
    /\ CanCall
    /\ \E n \in ReadCapacities :
          Call("WithDynamoReadCapacity", n, WithDynamoReadCapacity(c, n))

CallWithDynamoWriteCapacity ==
    /\ CanCall
    /\ \E n \in WriteCapacities :
          Call("WithDynamoWriteCapacity", n, WithDynamoWriteCapacity(c, n))

CallWithDynamoWaiterDelay ==
    /\ CanCall
    /\ \E d \in WaiterDelays :
          Call("WithDynamoWaiterDelay", d, WithDynamoWaiterDelay(c, d))

CallWithLogger ==
    /\ CanCall
    /\ \E l \in Loggers : Call("WithLogger", l, WithLogger(c, l))

CallWithShardIteratorAtTimestamp ==
    /\ CanCall
    /\ \E t \in Timestamps :
          Call("WithShardIteratorAtTimestamp", t,
               WithShardIteratorAtTimestamp(c, t))

CallWithShardIteratorLatest ==
    /\ CanCall
    /\ Call("WithShardIteratorLatest", Nil, WithShardIteratorLatest(c))

CallWithShardIteratorAtSequenceNumber ==
    /\ CanCall
    /\ \E s \in SequenceNumbers :
          Call("WithShardIteratorAtSequenceNumber", s,
               WithShardIteratorAtSequenceNumber(c, s))

CallWithShardIteratorAfterSequenceNumber ==
    /\ CanCall
    /\ \E s \in SequenceNumbers :
          Call("WithShardIteratorAfterSequenceNumber", s,
               WithShardIteratorAfterSequenceNumber(c, s))

CallWithShardIteratorTrimHorizon ==
    /\ CanCall
    /\ Call("WithShardIteratorTrimHorizon", Nil, WithShardIteratorTrimHorizon(c))

\* The one modifier call the validator specification makes on a given
\* configuration before validating it.
GivenWithThrottleDelay ==
    /\ pc = "given" /\ hist = <<>>
    /\ \E d \in ThrottleDelays :
          Call("WithThrottleDelay", d, WithThrottleDelay(c, d))

GivenWithShardIteratorAtTimestamp ==
    /\ pc = "given" /\ hist = <<>>
    /\ \E t \in Timestamps :
          Call("WithShardIteratorAtTimestamp", t,
               WithShardIteratorAtTimestamp(c, t))

\* validateConfig(&c): reads c, writes nothing but its result.
Validate ==
    /\ pc \in {"building", "given"}
    /\ err' = validateConfig(c)
    /\ pc' = "validated"
    /\ UNCHANGED <<c, recv, hist>>

Next ==
    \/ CallWithThrottleDelay
    \/ CallWithCommitFrequency
    \/ CallWithShardCheckFrequency
    \/ CallWithLeaderActionFrequency
    \/ CallWithBufferSize
    \/ CallWithStats
    \/ CallWithDynamoReadCapacity
    \/ CallWithDynamoWriteCapacity
    \/ CallWithDynamoWaiterDelay
    \/ CallWithLogger
    \/ CallWithShardIteratorAtTimestamp
    \/ CallWithShardIteratorLatest
    \/ CallWithShardIteratorAtSequenceNumber
    \/ CallWithShardIteratorAfterSequenceNumber
    \/ CallWithShardIteratorTrimHorizon
    \/ Validate

\* Chains of modifier calls from NewConfig(), then validation.
Spec == Init /\ [][Next]_vars

NextGiven ==
    \/ GivenWithThrottleDelay
    \/ GivenWithShardIteratorAtTimestamp
    \/ Validate

\* validateConfig on directly built configurations.
SpecValidator == InitGiven /\ [][NextGiven]_vars

\* =================================================================== claims
Validated == pc = "validated"

\* The last modifier call made (only used where hist is non-empty).
LastCall == hist[Len(hist)]

\* ------------------------------------------------------------------- C1
\* C1: the configuration NewConfig() returns, with no modifier applied,
\* passes validateConfig: validating it yields a nil error.
C1_DefaultValidates == (Validated /\ hist = <<>>) => err = Nil

C1_Witness == Validated /\ hist = <<>> /\ c = NewConfig

\* ------------------------------------------------------------------- C2
\* C2: every configuration validateConfig accepts has commitFrequency,
\* shardCheckFrequency, leaderActionFrequency, bufferSize and both dynamo
\* capacities strictly positive.
C2_AcceptedArePositive ==
    (Validated /\ err = Nil) =>
        /\ c.commitFrequency > 0
        /\ c.shardCheckFrequency > 0
        /\ c.leaderActionFrequency > 0
        /\ c.bufferSize > 0
        /\ c.dynamoReadCapacity > 0
        /\ c.dynamoWriteCapacity > 0

\* ------------------------------------------------------------------- C3
\* C3 as stated: whenever shardCheckFrequency > leaderActionFrequency,
\* whatever the other fields hold, validation returns
\* ErrConfigInvalidLeaderActionFrequency.
C3_WhateverTheOtherFields ==
    (Validated /\ c.shardCheckFrequency > c.leaderActionFrequency) =>
        err = ErrConfigInvalidLeaderActionFrequency

\* C3 (amended): whenever shardCheckFrequency > leaderActionFrequency and the
\* three earlier checks pass (throttleDelay >= 200ms, commitFrequency # 0,
\* shardCheckFrequency # 0), validation returns
\* ErrConfigInvalidLeaderActionFrequency, whatever the remaining fields hold.
C3_AfterEarlierChecks ==
    ( /\ Validated
      /\ c.shardCheckFrequency > c.leaderActionFrequency
      /\ c.throttleDelay >= 200 * Millisecond
      /\ c.commitFrequency # 0
      /\ c.shardCheckFrequency # 0 ) =>
        err = ErrConfigInvalidLeaderActionFrequency

\* shardCheckFrequency 2min over leaderActionFrequency 1min, with later
\* checks (buffer size, stats) failing as well.
C3_Witness ==
    /\ Validated
    /\ c.shardCheckFrequency = 2 * Minute
    /\ c.leaderActionFrequency = 1 * Minute
    /\ c.throttleDelay >= 200 * Millisecond
    /\ c.commitFrequency # 0
    /\ c.bufferSize = 0
    /\ c.stats = Nil
    /\ err = ErrConfigInvalidLeaderActionFrequency

\* ------------------------------------------------------------------- C4
\* The nine checks as the specification numbers them, and the kind each yields.
CheckFails(i, cfg) ==
    CASE i = 1 -> cfg.throttleDelay < 200 * Millisecond
      [] i = 2 -> cfg.commitFrequency = 0
      [] i = 3 -> cfg.shardCheckFrequency = 0
      [] i = 4 -> cfg.leaderActionFrequency = 0
      [] i = 5 -> cfg.shardCheckFrequency > cfg.leaderActionFrequency
      [] i = 6 -> cfg.bufferSize = 0
      [] i = 7 -> cfg.stats = Nil
      [] i = 8 -> cfg.dynamoReadCapacity = 0 \/ cfg.dynamoWriteCapacity = 0
      [] i = 9 -> cfg.logger = Nil

CheckKind(i) ==
    CASE i = 1 -> ErrConfigInvalidThrottleDelay
      [] i = 2 -> ErrConfigInvalidCommitFrequency
      [] i = 3 -> ErrConfigInvalidShardCheckFrequency
      [] i = 4 -> ErrConfigInvalidLeaderActionFrequency
      [] i = 5 -> ErrConfigInvalidLeaderActionFrequency
      [] i = 6 -> ErrConfigInvalidBufferSize
      [] i = 7 -> ErrConfigInvalidStats
      [] i = 8 -> ErrConfigInvalidDynamoCapacity
      [] i = 9 -> ErrConfigInvalidLogger

FailingChecks(cfg) == { i \in 1..9 : CheckFails(i, cfg) }

LowestFailing(cfg) ==
    CHOOSE i \in FailingChecks(cfg) : \A j \in FailingChecks(cfg) : i <= j

\* C4: validateConfig returns exactly the error kind of the lowest-numbered
\* failing check, and nil iff no check fails.
C4_FirstFailingCheck ==
    Validated =>
        /\ (FailingChecks(c) = {}) <=> (err = Nil)
        /\ FailingChecks(c) # {} => err = CheckKind(LowestFailing(c))

\* Several checks fail, the lowest of them neither the first nor the last.
C4_Witness ==
    /\ Validated
    /\ {6, 7, 9} \subseteq FailingChecks(c)
    /\ LowestFailing(c) = 6
    /\ err = ErrConfigInvalidBufferSize

\* ------------------------------------------------------------------- C5
\* C5: for every configuration and every d below 200ms (zero and negative
\* included), validating c.WithThrottleDelay(d) yields
\* ErrConfigInvalidThrottleDelay whatever the other fields hold; a delay of
\* exactly 200ms does not fail the throttle-delay check.
C5_ThrottleFloor ==
    (Validated /\ hist # <<>> /\ LastCall.name = "WithThrottleDelay") =>
        /\ LastCall.arg < 200 * Millisecond
              => err = ErrConfigInvalidThrottleDelay
        /\ LastCall.arg = 200 * Millisecond
              => err # ErrConfigInvalidThrottleDelay

\* A negative delay applied to a configuration that is invalid elsewhere too.
C5_Witness ==
    /\ Validated
    /\ hist # <<>>
    /\ LastCall.name = "WithThrottleDelay"
    /\ LastCall.arg < 0
    /\ recv.throttleDelay >= 200 * Millisecond
    /\ recv.commitFrequency = 0
    /\ err = ErrConfigInvalidThrottleDelay

\* ------------------------------------------------------------------- C6
\* The fields each modifier is meant to write: its own field, and for the
\* start-mode modifiers the mode plus that mode's own companion.
Targets(name) ==
    CASE name = "WithThrottleDelay" -> {"throttleDelay"}
      [] name = "WithCommitFrequency" -> {"commitFrequency"}
      [] name = "WithShardCheckFrequency" -> {"shardCheckFrequency"}
      [] name = "WithLeaderActionFrequency" -> {"leaderActionFrequency"}
      [] name = "WithBufferSize" -> {"bufferSize"}
      [] name = "WithStats" -> {"stats"}
      [] name = "WithDynamoReadCapacity" -> {"dynamoReadCapacity"}
      [] name = "WithDynamoWriteCapacity" -> {"dynamoWriteCapacity"}
      [] name = "WithDynamoWaiterDelay" -> {"dynamoWaiterDelay"}
      [] name = "WithLogger" -> {"logger"}
      [] name = "WithShardIteratorAtTimestamp"
            -> {"shardIteratorType", "atTimestamp"}
      [] name = "WithShardIteratorLatest" -> {"shardIteratorType"}
      [] name = "WithShardIteratorAtSequenceNumber"
            -> {"shardIteratorType", "sequenceNumber"}
      [] name = "WithShardIteratorAfterSequenceNumber"
            -> {"shardIteratorType", "sequenceNumber"}
      [] name = "WithShardIteratorTrimHorizon" -> {"shardIteratorType"}

\* C6: every modifier call returns a configuration equal to its receiver in
\* every field it does not target, and the receiver holds after the call what
\* it held before; the start-mode modifiers leave the other mode's companion
\* (and Latest / TrimHorizon both companions) as they were.
C6_Frame ==
    [][ hist' # hist =>
          /\ recv' = c
          /\ \A f \in Fields \ Targets(hist'[Len(hist')].name) : c'[f] = c[f]
      ]_vars

\* A start-mode switch made over a stale companion: AtTimestamp called on a
\* receiver that carries a sequence number, which the result still carries.
C6_Witness ==
    /\ hist # <<>>
    /\ LastCall.name = "WithShardIteratorAtTimestamp"
    /\ recv.sequenceNumber # ""
    /\ c.sequenceNumber = recv.sequenceNumber
    /\ c.atTimestamp # recv.atTimestamp

\* ------------------------------------------------------------------- C7
\* The failure results validateConfig returns over the configuration space.
FailureResults == { validateConfig(x) : x \in ConfigSpace } \ {Nil}

\* C7 as stated: the failure results are nine distinct error kinds.
C7_NineKinds == Validated => Cardinality(FailureResults) = 9

\* C7 (amended): the failure results are eight distinct error kinds, the
\* fourth and the fifth check sharing ErrConfigInvalidLeaderActionFrequency;
\* no validation returns a kind outside these eight.
C7_EightKinds ==
    /\ Cardinality(FailureResults) = 8
    /\ Validated => err \in FailureResults \cup {Nil}
    /\ (Validated /\ FailingChecks(c) # {} /\ LowestFailing(c) \in {4, 5})
          => err = ErrConfigInvalidLeaderActionFrequency

\* The fifth check alone fails and yields the fourth check's kind.
C7_Witness ==
    /\ Validated
    /\ FailingChecks(c) = {5}
    /\ err = ErrConfigInvalidLeaderActionFrequency

\* ------------------------------------------------------------------- C8
\* The configurations that differ from cfg in the start-mode fields only.
StartModeVariants(cfg) ==
    { [cfg EXCEPT !.shardIteratorType = m, !.atTimestamp = t,
                  !.sequenceNumber = s] :
        m \in ShardIteratorTypes,
        t \in {Nil} \cup Timestamps,
        s \in {""} \cup SequenceNumbers }

\* C8: validation does not depend on shardIteratorType, atTimestamp and
\* sequenceNumber; NewConfig().WithShardIteratorAtTimestamp(T) has mode
\* AT_TIMESTAMP, atTimestamp T, its sequenceNumber unchanged, and validates.
C8_StartModeNotValidated ==
    /\ Validated => \A v \in StartModeVariants(c) : validateConfig(v) = err
    /\ ( /\ hist # <<>>
         /\ LastCall.name = "WithShardIteratorAtTimestamp"
         /\ recv = NewConfig ) =>
            /\ c.shardIteratorType = ShardIteratorTypeAtTimestamp
            /\ c.atTimestamp = LastCall.arg
            /\ c.sequenceNumber = recv.sequenceNumber
            /\ Validated => err = Nil

C8_Witness ==
    /\ Validated
    /\ hist # <<>>
    /\ LastCall.name = "WithShardIteratorAtTimestamp"
    /\ recv = NewConfig
    /\ c.atTimestamp = "t1"
    /\ err = Nil

\* ------------------------------------------------------------------- C9
\* The modifier a recorded call names, applied to cfg.
Apply(cfg, call) ==
    CASE call.name = "WithThrottleDelay" -> WithThrottleDelay(cfg, call.arg)
      [] call.name = "WithCommitFrequency" -> WithCommitFrequency(cfg, call.arg)
      [] call.name = "WithShardCheckFrequency"
            -> WithShardCheckFrequency(cfg, call.arg)
      [] call.name = "WithLeaderActionFrequency"
            -> WithLeaderActionFrequency(cfg, call.arg)
      [] call.name = "WithBufferSize" -> WithBufferSize(cfg, call.arg)
      [] call.name = "WithStats" -> WithStats(cfg, call.arg)
      [] call.name = "WithDynamoReadCapacity"
            -> WithDynamoReadCapacity(cfg, call.arg)
      [] call.name = "WithDynamoWriteCapacity"
            -> WithDynamoWriteCapacity(cfg, call.arg)
      [] call.name = "WithDynamoWaiterDelay"
            -> WithDynamoWaiterDelay(cfg, call.arg)
      [] call.name = "WithLogger" -> WithLogger(cfg, call.arg)
      [] call.name = "WithShardIteratorAtTimestamp"
            -> WithShardIteratorAtTimestamp(cfg, call.arg)
      [] call.name = "WithShardIteratorLatest" -> WithShardIteratorLatest(cfg)
      [] call.name = "WithShardIteratorAtSequenceNumber"
            -> WithShardIteratorAtSequenceNumber(cfg, call.arg)
      [] call.name = "WithShardIteratorAfterSequenceNumber"
            -> WithShardIteratorAfterSequenceNumber(cfg, call.arg)
      [] call.name = "WithShardIteratorTrimHorizon"
            -> WithShardIteratorTrimHorizon(cfg)

RECURSIVE ApplyAll(_, _)
ApplyAll(cfg, calls) ==
    IF calls = <<>> THEN cfg
    ELSE ApplyAll(Apply(cfg, Head(calls)), Tail(calls))

\* The start mode a start-mode modifier selects.
ModeOf(name) ==
    CASE name = "WithShardIteratorAtTimestamp" -> ShardIteratorTypeAtTimestamp
      [] name = "WithShardIteratorLatest" -> ShardIteratorTypeLatest
      [] name = "WithShardIteratorAtSequenceNumber" -> ShardIteratorTypeLatest
      [] name = "WithShardIteratorAfterSequenceNumber"
            -> ShardIteratorTypeAfterSequenceNumber
      [] name = "WithShardIteratorTrimHorizon" -> ShardIteratorTypeTrimHorizon

\* What the last of the first n calls that targets field f wrote to it: its
\* argument (for shardIteratorType, the mode it selects), or the default if
\* none of them targets f.
RECURSIVE LastWriteUpTo(_, _, _)
LastWriteUpTo(calls, n, f) ==
    IF n = 0 THEN NewConfig[f]
    ELSE IF f \in Targets(calls[n].name)
         THEN IF f = "shardIteratorType" THEN ModeOf(calls[n].name)
              ELSE calls[n].arg
         ELSE LastWriteUpTo(calls, n - 1, f)

LastWrite(calls, f) == LastWriteUpTo(calls, Len(calls), f)

\* The configuration holding, in each field, what was last written to it.
LastWritten(calls) ==
    [ shardIteratorType     |-> LastWrite(calls, "shardIteratorType"),
      throttleDelay         |-> LastWrite(calls, "throttleDelay"),
      commitFrequency       |-> LastWrite(calls, "commitFrequency"),
      shardCheckFrequency   |-> LastWrite(calls, "shardCheckFrequency"),
      leaderActionFrequency |-> LastWrite(calls, "leaderActionFrequency"),
      bufferSize            |-> LastWrite(calls, "bufferSize"),
      stats                 |-> LastWrite(calls, "stats"),
      dynamoReadCapacity    |-> LastWrite(calls, "dynamoReadCapacity"),
      dynamoWriteCapacity   |-> LastWrite(calls, "dynamoWriteCapacity"),
      dynamoWaiterDelay     |-> LastWrite(calls, "dynamoWaiterDelay"),
      logger                |-> LastWrite(calls, "logger"),
      atTimestamp           |-> LastWrite(calls, "atTimestamp"),
      sequenceNumber        |-> LastWrite(calls, "sequenceNumber") ]

\* Every modifier accepts a call while the chain is being built.
NoModifierRejects ==
    /\ ENABLED CallWithThrottleDelay
    /\ ENABLED CallWithCommitFrequency
    /\ ENABLED CallWithShardCheckFrequency
    /\ ENABLED CallWithLeaderActionFrequency
    /\ ENABLED CallWithBufferSize
    /\ ENABLED CallWithStats
    /\ ENABLED CallWithDynamoReadCapacity
    /\ ENABLED CallWithDynamoWriteCapacity
    /\ ENABLED CallWithDynamoWaiterDelay
    /\ ENABLED CallWithLogger
    /\ ENABLED CallWithShardIteratorAtTimestamp
    /\ ENABLED CallWithShardIteratorLatest
    /\ ENABLED CallWithShardIteratorAtSequenceNumber
    /\ ENABLED CallWithShardIteratorAfterSequenceNumber
    /\ ENABLED CallWithShardIteratorTrimHorizon

\* hist with its last two calls exchanged.
LastTwoSwapped ==
    LET n == Len(hist) IN
    SubSeq(hist, 1, n - 2) \o <<hist[n], hist[n - 1]>>

\* C9: along every chain of modifier calls from NewConfig() no call is
\* refused, each field of the value reached holds what the last call that
\* targets it wrote (the default if none does), validation of the value
\* reached is validation of those last-written fields (so a bad value that
\* was overwritten by a good one does not cause rejection), and two calls on
\* different fields give the same value in either order.
C9_LastWriterWins ==
    /\ CanCall => NoModifierRejects
    /\ LET final == LastWritten(hist) IN
          /\ \A f \in Fields : c[f] = final[f]
          /\ Validated => err = validateConfig(final)
    /\ ( /\ Len(hist) >= 2
         /\ Targets(hist[Len(hist)].name) \cap Targets(hist[Len(hist) - 1].name)
               = {} )
          => c = ApplyAll(NewConfig, LastTwoSwapped)

\* A zero buffer size written, then overwritten by a positive one next to a
\* call on another field, and the value reached validates.
C9_Witness ==
    /\ Validated
    /\ Len(hist) = 3
    /\ hist[1] = [name |-> "WithBufferSize", arg |-> 0]
    /\ hist[2] = [name |-> "WithBufferSize", arg |-> 50]
    /\ hist[3].name = "WithLogger"
    /\ validateConfig(ApplyAll(NewConfig, <<hist[1]>>))
          = ErrConfigInvalidBufferSize
    /\ err = Nil

====
